---- MODULE Spec2Model ----
(***************************************************************************)
(* Suggestion lifecycle and vote aggregation of the bot (src/main.py):     *)
(* the SQLite tables suggestion_guild_settings, suggestions and votes, the *)
(* accessors on them, and the interaction handlers (modal submit, vote     *)
(* buttons, /approve, /reject, the /set... commands, on_ready) run by one  *)
(* cooperative event loop.  Every sqlite3 call is synchronous and commits  *)
(* on its own connection; a handler gives up the loop only at an await.    *)
(***************************************************************************)
EXTENDS Integers, FiniteSets, Sequences, TLC

\* ------------------------------------------------------------------ bounds
\* Handlers that may be in flight (started, not yet finished) at once.
MaxTasks == 2
\* Interactions dispatched and process restarts in one behaviour (the
\* counter ops stops there).
MaxOps == 4

SuggestionIds == {"s1", "s2"}
Users == {"u1", "u2"}
Guilds == {"g1", "g2"}
Reasons == {"NULL", "r1"}
VoteTypes == {"upvote", "downvote"}
\* What guild.get_role and `role in user.roles` can find for the actor.
RoleStates == {"missing", "not_held", "held"}
\* interaction.user.mention of the member who runs /approve or /reject.
Mentions == {"m1", "m2"}
\* The attachment of /suggest: none, an image/* content type, another type.
Attachments == {"none", "image", "other"}

VARIABLES
    settings,       \* table suggestion_guild_settings: a set of rows
    suggestions,    \* table suggestions: a set of rows
    votes,          \* table votes: a set of rows
    tasks,          \* the handlers in flight: the locals and position of each
    lastCast,       \* history: per (suggestion, voter) the last completed vote
    ops,            \* interactions dispatched and restarts so far
    views,          \* the bot's view store: ids with a registered SuggestionView
    ready,          \* on_ready of the running process: in its await, or over
    modal,          \* the SuggestionModal a member has open: its guild, or "none"
    records         \* per id the public record in the channel and what it shows

vars == <<settings, suggestions, votes, tasks, lastCast, ops, views, ready,
          modal, records>>

\* ------------------------------------------------------------ the tables

\* PRIMARY KEY (suggestion_id, user_id) of votes, and the WHERE clause of
\* the statements on it: the rows of vs under the key (s, u).
VoteRowsNoKey(vs, s, u) == {}
VoteRows(vs, s, u) == {r \in vs : r.suggestion_id = s /\ r.user_id = u}

\* get_guild_settings: fetchone() of the guild's row; {} stands for None.
get_guild_settings(g) == {r \in settings : r.guild_id = g}

\* INSERT ... ON CONFLICT(guild_id) DO UPDATE SET <field> = value
UpsertSetting(g, field, value) ==
    IF get_guild_settings(g) = {}
    THEN settings \cup
           {[[guild_id |-> g, suggestion_channel_id |-> "NULL",
              reviewer_role_id |-> "NULL", blocked_role_id |-> "NULL"]
               EXCEPT ![field] = value]}
    ELSE {IF r.guild_id = g THEN [r EXCEPT ![field] = value] ELSE r : r \in settings}

set_suggestion_channel(g, c) == UpsertSetting(g, "suggestion_channel_id", c)
set_reviewer_role(g, role) == UpsertSetting(g, "reviewer_role_id", role)
set_blocked_role(g, role) == UpsertSetting(g, "blocked_role_id", role)

\* get_suggestion with the WHERE suggestion_id = ? left out of the SELECT:
\* fetchone() gives a row of the table whatever the id.
get_suggestion_any_row(s) ==
    IF suggestions = {} THEN {} ELSE {CHOOSE r \in suggestions : TRUE}
\* get_suggestion: fetchone() of the row with that id; {} stands for None.
get_suggestion(s) == {r \in suggestions : r.suggestion_id = s}

\* The one row of a non-empty fetchone() result.
Row(rs) == CHOOSE r \in rs : TRUE

\* save_suggestion: INSERT with status 'pending', decision_reason None,
\* decided_anonymously 0.  suggestion_id is the PRIMARY KEY: the INSERT of an
\* id that has a row raises IntegrityError and leaves the table as it was.
save_suggestion_ok(s) == get_suggestion(s) = {}
\* save_suggestion writing the status of a decided suggestion.
save_suggestion_as_approved(s, g) ==
    IF save_suggestion_ok(s)
    THEN suggestions \cup
           {[suggestion_id |-> s, guild_id |-> g, status |-> "approved",
             decision_reason |-> "NULL", decided_anonymously |-> FALSE]}
    ELSE suggestions
save_suggestion(s, g) ==
    IF save_suggestion_ok(s)
    THEN suggestions \cup
           {[suggestion_id |-> s, guild_id |-> g, status |-> "pending",
             decision_reason |-> "NULL", decided_anonymously |-> FALSE]}
    ELSE suggestions

\* update_suggestion_status: one UPDATE of status, decision_reason and
\* decided_anonymously WHERE suggestion_id = ?; no condition on the status.
update_suggestion_status_only(s, status, reason, anonymous) ==
    {IF r.suggestion_id = s THEN [r EXCEPT !.status = status] ELSE r
       : r \in suggestions}
update_suggestion_status(s, status, reason, anonymous) ==
    {IF r.suggestion_id = s
     THEN [r EXCEPT !.status = status, !.decision_reason = reason,
                    !.decided_anonymously = anonymous]
     ELSE r : r \in suggestions}

\* add_vote: INSERT INTO votes; IntegrityError on the primary key -> False.
add_vote_ok(vs, s, u) == VoteRows(vs, s, u) = {}
add_vote(vs, s, u, t) ==
    IF add_vote_ok(vs, s, u)
    THEN vs \cup {[suggestion_id |-> s, user_id |-> u, vote_type |-> t]}
    ELSE vs

\* remove_vote: DELETE FROM votes WHERE suggestion_id = ? AND user_id = ?
remove_vote_noop(vs, s, u) == vs
remove_vote(vs, s, u) == vs \ VoteRows(vs, s, u)

\* get_user_vote: result[0] if result else None ("none" stands for None).
get_user_vote_blind(vs, s, u) == "none"
get_user_vote(vs, s, u) ==
    IF VoteRows(vs, s, u) = {} THEN "none" ELSE Row(VoteRows(vs, s, u)).vote_type

\* COUNT(*) of a group, counted row by row.
RECURSIVE CountRows(_)
CountRows(rs) ==
    IF rs = {} THEN 0 ELSE 1 + CountRows(rs \ {Row(rs)})

\* get_votes: SELECT vote_type, COUNT(*) ... GROUP BY vote_type yields one
\* pair per vote type that has a row; the dict starts at 0/0 and takes them.
GroupCounts(vs, s) ==
    {<<t, CountRows({r \in vs : r.suggestion_id = s /\ r.vote_type = t})>>
       : t \in {r.vote_type : r \in {x \in vs : x.suggestion_id = s}}}
\* get_votes with the WHERE suggestion_id = ? left out of the SELECT.
get_votes_any_suggestion(vs, s) ==
    [t \in VoteTypes |-> CountRows({r \in vs : r.vote_type = t})]
get_votes(vs, s) ==
    [t \in VoteTypes |->
       IF \E p \in GroupCounts(vs, s) : p[1] = t
       THEN (CHOOSE p \in GroupCounts(vs, s) : p[1] = t)[2]
       ELSE 0]

\* ------------------------------------------------------------ the handlers

NoCast == [type |-> "none", before |-> "none", twice |-> FALSE]
NoTally == [t \in VoteTypes |-> 0]

\* The votes row of (s, u) in vs, read without the accessors.
VoteOf(vs, s, u) ==
    IF [suggestion_id |-> s, user_id |-> u, vote_type |-> "upvote"] \in vs
    THEN "upvote"
    ELSE IF [suggestion_id |-> s, user_id |-> u, vote_type |-> "downvote"] \in vs
         THEN "downvote"
         ELSE "none"

\* The positions at which a handler is suspended in an await; at every other
\* position it holds the event loop.
SuspensionPointsWithWrite ==
    {"send", "thread", "ack", "edit", "fetch", "respond", "write", "write2", "set"}
\* The same with an await between remove_vote and add_vote of a switch.
SuspensionPointsWithSwitch ==
    {"send", "thread", "ack", "edit", "fetch", "respond", "write2"}
SuspensionPoints == {"send", "thread", "ack", "edit", "fetch", "respond"}

\* The loop is free for t: every other handler is suspended.
LoopFree(t) == \A o \in tasks \ {t} : o.pc \in SuspensionPoints

\* The loop can take a new interaction.
CanStart ==
    /\ ops < MaxOps
    /\ Cardinality(tasks) < MaxTasks
    /\ \A o \in tasks : o.pc \in SuspensionPoints

\* Handler t moves on as t2 / ends.
Becomes(t, t2) == tasks' = (tasks \ {t}) \cup {t2}
Ends(t) == tasks' = tasks \ {t}

\* What /setchannel and /setreviewerrole leave for the first guild.
Configured ==
    {[guild_id |-> "g1", suggestion_channel_id |-> "c1",
      reviewer_role_id |-> "reviewer", blocked_role_id |-> "NULL"]}

\* The bot has started on a new database (init_suggestions_db: three empty
\* tables), or on one the admins configured in an earlier run, and on_ready
\* is over: no row is pending, no view is registered.
Init ==
    /\ settings \in {{}, Configured}
    /\ suggestions = {}
    /\ votes = {}
    /\ tasks = {}
    /\ lastCast = [p \in SuggestionIds \X Users |-> NoCast]
    /\ ops = 0
    /\ views = {}
    /\ ready = "done"
    /\ modal = "none"
    /\ records = [s \in SuggestionIds |-> "none"]

\* /setchannel, /setreviewerrole, /setblockedrole: one upsert, then the reply.
setchannel(g) ==
    /\ ops < MaxOps
    /\ \A o \in tasks : o.pc \in SuspensionPoints
    /\ settings' = set_suggestion_channel(g, "c1")
    /\ ops' = ops + 1
    /\ UNCHANGED <<suggestions, votes, tasks, lastCast, views, ready, modal, records>>

setreviewerrole(g) ==
    /\ ops < MaxOps
    /\ \A o \in tasks : o.pc \in SuspensionPoints
    /\ settings' = set_reviewer_role(g, "reviewer")
    /\ ops' = ops + 1
    /\ UNCHANGED <<suggestions, votes, tasks, lastCast, views, ready, modal, records>>

setblockedrole(g) ==
    /\ ops < MaxOps
    /\ \A o \in tasks : o.pc \in SuspensionPoints
    /\ settings' = set_blocked_role(g, "blocked")
    /\ ops' = ops + 1
    /\ UNCHANGED <<suggestions, votes, tasks, lastCast, views, ready, modal, records>>

\* The blocked-role check of /suggest.  role: what guild.get_role(settings[2])
\* and interaction.user.roles give for the member.
Blocked(g, role) ==
    /\ get_guild_settings(g) # {}
    /\ Row(get_guild_settings(g)).blocked_role_id # "NULL"
    /\ role = "held"

\* /suggest: the blocked-role check, the content-type check of the attached
\* image, then send_modal: the member has the form open.  A refusal is a
\* reply and nothing else.  (One form is open at a time.)
suggest(g) ==
    /\ modal = "none"
    /\ \A o \in tasks : o.pc \in SuspensionPoints
    /\ \E role \in RoleStates, image \in Attachments :
         modal' = IF Blocked(g, role) \/ image = "other" THEN "none" ELSE g
    /\ UNCHANGED <<settings, suggestions, votes, tasks, lastCast, ops, views, ready,
                   records>>

\* generate_suggestion_id: eight random characters.  Identifiers are
\* interchangeable, so a draw is either one that is in use (a row, or a
\* submission in flight) or the first one that is not.
InUse == {r.suggestion_id : r \in suggestions}
           \cup {t.sid : t \in {x \in tasks : x.kind = "submit" /\ x.pc # "respond"}}
generate_suggestion_id ==
    InUse \cup (IF "s1" \notin InUse THEN {"s1"} ELSE SuggestionIds \ InUse)

\* on_submit without its `not settings or not settings[0]` check.
on_submit_unchecked(g, s) ==
    /\ CanStart
    /\ modal = g
    /\ s \in generate_suggestion_id
    /\ ops' = ops + 1
    /\ tasks' = tasks \cup {[kind |-> "submit", pc |-> "send", guild |-> g, sid |-> s]}
    /\ modal' = "none"
    /\ UNCHANGED <<settings, suggestions, votes, lastCast, views, ready, records>>

\* SuggestionModal.on_submit up to `await channel.send`: the member submits
\* the open form; the settings check and the identifier s drawn.
on_submit(g, s) ==
    /\ CanStart
    /\ modal = g
    /\ s \in generate_suggestion_id
    /\ ops' = ops + 1
    /\ LET st == get_guild_settings(g) IN
         tasks' = tasks \cup
           {IF st = {} \/ Row(st).suggestion_channel_id = "NULL"
            THEN [kind |-> "submit", pc |-> "respond", result |-> "NotConfigured"]
            ELSE [kind |-> "submit", pc |-> "send", guild |-> g, sid |-> s]}
    /\ modal' = "none"
    /\ UNCHANGED <<settings, suggestions, votes, lastCast, views, ready, records>>

\* channel.send(embed, view=view) returned: the record is published (with
\* no decision field) and the library has stored the view; next `await
\* create_thread`.  records follows the first record published under an id.
SubmitSend(t) ==
    /\ t.kind = "submit" /\ t.pc = "send"
    /\ LoopFree(t)
    /\ Becomes(t, [t EXCEPT !.pc = "thread"])
    /\ views' = views \cup {t.sid}
    /\ records' = [records EXCEPT ![t.sid] = IF @ = "none" THEN "open" ELSE @]
    /\ UNCHANGED <<settings, suggestions, votes, lastCast, ops, ready, modal>>

\* create_thread returned: save_suggestion, then `await send_message`; an
\* IntegrityError lands in `except Exception` and is reported.
\* role: whether the author holds the blocked role now; nothing reads it.
SubmitSaveAs(t, role) ==
    /\ t.kind = "submit" /\ t.pc = "thread"
    /\ LoopFree(t)
    /\ suggestions' = save_suggestion(t.sid, t.guild)
    /\ Becomes(t, [kind |-> "submit", pc |-> "respond",
                   result |-> IF save_suggestion_ok(t.sid)
                              THEN "submitted" ELSE "error"])
    /\ UNCHANGED <<settings, votes, lastCast, ops, views, ready, modal, records>>

SubmitSave(t) == \E role \in RoleStates : SubmitSaveAs(t, role)

\* interaction.user.id of a button press.  Voters are interchangeable, so a
\* press comes from a voter the state mentions (a row, a vote call) or from
\* the first one it does not.
Known == {r.user_id : r \in votes}
           \cup {p[2] : p \in {q \in SuggestionIds \X Users : lastCast[q] # NoCast}}
           \cup {t.uid : t \in {x \in tasks : x.pc \in {"write", "write2"}}}
Voters == Known \cup (IF "u1" \notin Known THEN {"u1"} ELSE Users \ Known)

\* The vote handler without its `if not suggestion` check.
VoteStartNoRowCheck(s, u, g, type) ==
    /\ CanStart
    /\ s \in views
    /\ u \in Voters
    /\ ops' = ops + 1
    /\ LET sug == get_suggestion(s)
           fail(res) == [kind |-> "vote", pc |-> "respond", result |-> res]
       IN tasks' = tasks \cup
            {IF sug # {} /\ Row(sug).guild_id # g THEN fail("NotFound")
             ELSE IF sug # {} /\ Row(sug).status # "pending" THEN fail("VotingClosed")
             ELSE [kind |-> "vote", pc |-> "write", sid |-> s, uid |-> u,
                   type |-> type, suggestion |-> sug,
                   current_vote |-> get_user_vote(votes, s, u),
                   votes_at_call |-> votes, add_ok |-> TRUE,
                   embed |-> records[s]]}
    /\ UNCHANGED <<settings, suggestions, votes, lastCast, views, ready, modal, records>>

\* The vote handler without its `suggestion[1] != interaction.guild_id` check.
VoteStartAnyGuild(s, u, g, type) ==
    /\ CanStart
    /\ s \in views
    /\ u \in Voters
    /\ ops' = ops + 1
    /\ LET sug == get_suggestion(s)
           fail(res) == [kind |-> "vote", pc |-> "respond", result |-> res]
       IN tasks' = tasks \cup
            {IF sug = {} THEN fail("NotFound")
             ELSE IF Row(sug).status # "pending" THEN fail("VotingClosed")
             ELSE [kind |-> "vote", pc |-> "write", sid |-> s, uid |-> u,
                   type |-> type, suggestion |-> sug,
                   current_vote |-> get_user_vote(votes, s, u),
                   votes_at_call |-> votes, add_ok |-> TRUE,
                   embed |-> records[s]]}
    /\ UNCHANGED <<settings, suggestions, votes, lastCast, views, ready, modal, records>>

\* The vote handler without its `suggestion[10] != 'pending'` check.
VoteStartNoStatusCheck(s, u, g, type) ==
    /\ CanStart
    /\ s \in views
    /\ u \in Voters
    /\ ops' = ops + 1
    /\ LET sug == get_suggestion(s)
           fail(res) == [kind |-> "vote", pc |-> "respond", result |-> res]
       IN tasks' = tasks \cup
            {IF sug = {} THEN fail("NotFound")
             ELSE IF Row(sug).guild_id # g THEN fail("NotFound")
             ELSE [kind |-> "vote", pc |-> "write", sid |-> s, uid |-> u,
                   type |-> type, suggestion |-> sug,
                   current_vote |-> get_user_vote(votes, s, u),
                   votes_at_call |-> votes, add_ok |-> TRUE,
                   embed |-> records[s]]}
    /\ UNCHANGED <<settings, suggestions, votes, lastCast, views, ready, modal, records>>

\* _handle_upvote / _handle_downvote from the button press to the first
\* write: get_suggestion, the three checks, get_user_vote.  (embed: the
\* embed of interaction.message, the record as it was at the press.)  The press of a
\* button `upvote:<s>` / `downvote:<s>` reaches the callback through the
\* SuggestionView registered for s.
VoteStart(s, u, g, type) ==
    /\ CanStart
    /\ s \in views
    /\ u \in Voters
    /\ ops' = ops + 1
    /\ LET sug == get_suggestion(s)
           fail(res) == [kind |-> "vote", pc |-> "respond", result |-> res]
       IN tasks' = tasks \cup
            {IF sug = {} THEN fail("NotFound")
             ELSE IF Row(sug).guild_id # g THEN fail("NotFound")
             ELSE IF Row(sug).status # "pending" THEN fail("VotingClosed")
             ELSE [kind |-> "vote", pc |-> "write", sid |-> s, uid |-> u,
                   type |-> type, suggestion |-> sug,
                   current_vote |-> get_user_vote(votes, s, u),
                   votes_at_call |-> votes, add_ok |-> TRUE,
                   embed |-> records[s]]}
    /\ UNCHANGED <<settings, suggestions, votes, lastCast, views, ready, modal, records>>

handle_upvote(s, u, g) == VoteStart(s, u, g, "upvote")
handle_downvote(s, u, g) == VoteStart(s, u, g, "downvote")

\* The vote call of t returns to its await with result res.
VoteDone(t, res, ok) ==
    /\ Becomes(t, [kind |-> "vote", pc |-> "ack", sid |-> t.sid, result |-> res,
                   add_ok |-> ok, tally |-> NoTally, embed |-> t.embed])
    /\ lastCast' = [lastCast EXCEPT ![<<t.sid, t.uid>>] =
           [type |-> t.type,
            before |-> VoteOf(t.votes_at_call, t.sid, t.uid),
            twice |-> (lastCast[<<t.sid, t.uid>>].type = t.type)]]

\* The first storage call of the branch on current_vote: remove_vote (same
\* type, or the opposite type) or add_vote (no vote).
VoteWrite(t) ==
    /\ t.kind = "vote" /\ t.pc = "write"
    /\ LoopFree(t)
    /\ IF t.current_vote = t.type
       THEN /\ votes' = remove_vote(votes, t.sid, t.uid)
            /\ VoteDone(t, "removed", TRUE)
       ELSE IF t.current_vote \in VoteTypes
       THEN /\ votes' = remove_vote(votes, t.sid, t.uid)
            /\ Becomes(t, [t EXCEPT !.pc = "write2"])
            /\ UNCHANGED lastCast
       ELSE /\ votes' = add_vote(votes, t.sid, t.uid, t.type)
            /\ VoteDone(t, "added", add_vote_ok(votes, t.sid, t.uid))
    /\ UNCHANGED <<settings, suggestions, ops, views, ready, modal, records>>

\* The add_vote that follows remove_vote on a switch.
VoteWrite2(t) ==
    /\ t.kind = "vote" /\ t.pc = "write2"
    /\ LoopFree(t)
    /\ votes' = add_vote(votes, t.sid, t.uid, t.type)
    /\ VoteDone(t, "switched", add_vote_ok(votes, t.sid, t.uid))
    /\ UNCHANGED <<settings, suggestions, ops, views, ready, modal, records>>

\* send_message returned; update_embed reads the suggestion and the tally
\* and awaits message.edit (or returns when the row is gone).
VoteAck(t) ==
    /\ t.kind = "vote" /\ t.pc = "ack"
    /\ LoopFree(t)
    /\ IF get_suggestion(t.sid) = {}
       THEN Ends(t)
       ELSE Becomes(t, [t EXCEPT !.pc = "edit", !.tally = get_votes(votes, t.sid)])
    /\ UNCHANGED <<settings, suggestions, votes, lastCast, ops, views, ready, modal, records>>

\* message.edit(embed=embed) returned: the record now shows the embed the
\* press carried (interaction.message.embeds[0]) with the results field and
\* the colour set; the handler ends.
VoteEdit(t) ==
    /\ t.kind = "vote" /\ t.pc = "edit"
    /\ LoopFree(t)
    /\ Ends(t)
    /\ records' = [records EXCEPT ![t.sid] = t.embed]
    /\ UNCHANGED <<settings, suggestions, votes, lastCast, ops, views, ready, modal>>

\* The reviewer checks of approve / reject: a reviewer role is configured and
\* the actor holds it (role: what get_role and user.roles give) or is an
\* administrator (admin: guild_permissions.administrator).
ReviewerRoleSet(g) ==
    /\ get_guild_settings(g) # {}
    /\ Row(get_guild_settings(g)).reviewer_role_id # "NULL"
IsReviewer(role, admin) == role = "held" \/ admin

\* The reviewer checks with the administrator pass for every member.
DecideCheckedAnyMember(s, g, verdict, role, admin) ==
    /\ CanStart
    /\ ops' = ops + 1
    /\ LET sug == get_suggestion(s)
           fail(res) == [kind |-> "decide", pc |-> "respond", result |-> res,
                         rendered |-> FALSE]
       IN IF ~ReviewerRoleSet(g)
          THEN tasks' = tasks \cup {fail("NoReviewerRole")}
          ELSE IF sug = {} THEN tasks' = tasks \cup {fail("NotFound")}
          ELSE IF Row(sug).guild_id # g
          THEN tasks' = tasks \cup {fail("NotFound")}
          ELSE \E reason \in Reasons, anonymous \in BOOLEAN :
                 tasks' = tasks \cup
                   {[kind |-> "decide", pc |-> "set", sid |-> s,
                     verdict |-> verdict, reason |-> reason,
                     anonymous |-> anonymous, suggestion |-> sug,
                     channel |-> Row(get_guild_settings(g)).suggestion_channel_id]}
    /\ UNCHANGED <<settings, suggestions, votes, lastCast, views, ready, modal, records>>

\* approve / reject up to update_suggestion_status: the reviewer checks,
\* get_suggestion, the guild check.  The status of the row is not looked at.
\* reason and anonymous are the command's options, first used by the UPDATE.
DecideChecked(s, g, verdict, role, admin) ==
    /\ CanStart
    /\ ops' = ops + 1
    /\ LET sug == get_suggestion(s)
           fail(res) == [kind |-> "decide", pc |-> "respond", result |-> res,
                         rendered |-> FALSE]
       IN IF ~ReviewerRoleSet(g)
          THEN tasks' = tasks \cup {fail("NoReviewerRole")}
          ELSE IF ~IsReviewer(role, admin)
          THEN tasks' = tasks \cup {fail("NotReviewer")}
          ELSE IF sug = {} THEN tasks' = tasks \cup {fail("NotFound")}
          ELSE IF Row(sug).guild_id # g
          THEN tasks' = tasks \cup {fail("NotFound")}
          ELSE \E reason \in Reasons, anonymous \in BOOLEAN :
                 tasks' = tasks \cup
                   {[kind |-> "decide", pc |-> "set", sid |-> s,
                     verdict |-> verdict, reason |-> reason,
                     anonymous |-> anonymous, suggestion |-> sug,
                     channel |-> Row(get_guild_settings(g)).suggestion_channel_id]}
    /\ UNCHANGED <<settings, suggestions, votes, lastCast, views, ready, modal, records>>

DecideStart(s, g, verdict) ==
    \E role \in RoleStates, admin \in BOOLEAN : DecideChecked(s, g, verdict, role, admin)

approve(s, g) == DecideStart(s, g, "approved")
reject(s, g) == DecideStart(s, g, "rejected")

\* update_suggestion_status, then get_channel(settings[0]) and, with a
\* channel, `await channel.fetch_message`; without one the reply.
\* (votes_at_set: history, the suggestion's vote rows at the UPDATE.)
DecideSet(t) ==
    /\ t.kind = "decide" /\ t.pc = "set"
    /\ LoopFree(t)
    /\ suggestions' = update_suggestion_status(t.sid, t.verdict, t.reason, t.anonymous)
    /\ Becomes(t, IF t.channel = "NULL"
                  THEN [kind |-> "decide", pc |-> "respond", result |-> t.verdict,
                        rendered |-> FALSE]
                  ELSE [kind |-> "decide", pc |-> "fetch", sid |-> t.sid,
                        result |-> t.verdict, reason |-> t.reason,
                        anonymous |-> t.anonymous,
                        votes_at_set |-> {r \in votes : r.suggestion_id = t.sid}])
    /\ UNCHANGED <<settings, votes, lastCast, ops, views, ready, modal, records>>

\* approval_text / rejection_text and the field they go into: the name of
\* the field, who decided, and the reason line (none for a falsy reason).
decision_field_naming_actor(verdict, mention, anonymous, reason) ==
    [name |-> IF verdict = "approved" THEN "Approved" ELSE "Rejected",
     by |-> mention,
     reason |-> reason]
decision_field(verdict, mention, anonymous, reason) ==
    [name |-> IF verdict = "approved" THEN "Approved" ELSE "Rejected",
     by |-> IF anonymous THEN "Anonymous Reviewer" ELSE mention,
     reason |-> reason]

\* fetch_message returned: get_votes for the results field, the decision
\* field of the member `mention` who ran the command, `await message.edit`.
DecideRender(t, mention) ==
    /\ t.kind = "decide" /\ t.pc = "fetch"
    /\ LoopFree(t)
    /\ Becomes(t, [kind |-> "decide", pc |-> "edit", sid |-> t.sid,
                   result |-> t.result, tally |-> get_votes(votes, t.sid),
                   votes_at_set |-> t.votes_at_set,
                   field |-> decision_field(t.result, mention, t.anonymous, t.reason)])
    /\ UNCHANGED <<settings, suggestions, votes, lastCast, ops, views, ready, modal, records>>

DecideFetch(t) == \E mention \in Mentions : DecideRender(t, mention)

\* message.edit and the thread lock returned: the record shows the fetched
\* embed with the decision field added; next the reply.
DecideEdit(t) ==
    /\ t.kind = "decide" /\ t.pc = "edit"
    /\ LoopFree(t)
    /\ Becomes(t, [kind |-> "decide", pc |-> "respond", result |-> t.result,
                   rendered |-> TRUE])
    /\ records' = [records EXCEPT ![t.sid] = "decided"]
    /\ UNCHANGED <<settings, suggestions, votes, lastCast, ops, views, ready, modal>>

\* The closing `await interaction.response.send_message` returned.
Respond(t) ==
    /\ t.pc = "respond"
    /\ LoopFree(t)
    /\ Ends(t)
    /\ UNCHANGED <<settings, suggestions, votes, lastCast, ops, views, ready, modal, records>>

\* A failed await answered by a compensating write: the vote rows of the
\* suggestion deleted, the decision set back to pending.
PlatformFailsRollingBack(t) ==
    /\ LoopFree(t)
    /\ \/ /\ t.kind = "submit" /\ t.pc \in {"send", "thread"}
          /\ Becomes(t, [kind |-> "submit", pc |-> "respond", result |-> "error"])
          /\ UNCHANGED <<suggestions, votes>>
       \/ /\ t.kind = "vote" /\ t.pc \in {"ack", "edit"}
          /\ Ends(t)
          /\ votes' = {r \in votes : r.suggestion_id # t.sid}
          /\ UNCHANGED suggestions
       \/ /\ t.kind = "decide" /\ t.pc \in {"fetch", "edit"}
          /\ Becomes(t, [kind |-> "decide", pc |-> "respond", result |-> t.result,
                         rendered |-> FALSE])
          /\ suggestions' = update_suggestion_status(t.sid, "pending", "NULL", FALSE)
          /\ UNCHANGED votes
    /\ UNCHANGED <<settings, lastCast, ops, views, ready, modal, records>>

\* An await on the platform raises instead of returning.  on_submit reports
\* it (`except Exception`); in a vote callback it ends the callback (message
\* .edit: `except Forbidden: pass`); approve / reject swallow it (`except
\* Exception: pass`) and go on to the reply.  No handler has a rollback.
PlatformFails(t) ==
    /\ LoopFree(t)
    /\ \/ /\ t.kind = "submit" /\ t.pc \in {"send", "thread"}
          /\ Becomes(t, [kind |-> "submit", pc |-> "respond", result |-> "error"])
       \/ /\ t.kind = "vote" /\ t.pc \in {"ack", "edit"}
          /\ Ends(t)
       \/ /\ t.kind = "decide" /\ t.pc \in {"fetch", "edit"}
          /\ Becomes(t, [kind |-> "decide", pc |-> "respond", result |-> t.result,
                         rendered |-> FALSE])
    /\ UNCHANGED <<settings, suggestions, votes, lastCast, ops, views, ready, modal, records>>

\* on_ready after `await init_game_db()`: the SELECT of the ids whose status
\* is 'pending'.
on_ready_rows_of_any_status == {r.suggestion_id : r \in suggestions}
on_ready_rows ==
    {r.suggestion_id : r \in {x \in suggestions : x.status = "pending"}}

\* init_game_db returned: init_suggestions_db (CREATE TABLE IF NOT EXISTS),
\* the SELECT, and bot.add_view(SuggestionView(id)) for each row, all
\* without an await.
on_ready ==
    /\ ready = "init_game_db"
    /\ \A o \in tasks : o.pc \in SuspensionPoints
    /\ views' = views \cup on_ready_rows
    /\ ready' = "done"
    /\ UNCHANGED <<settings, suggestions, votes, tasks, lastCast, ops, modal, records>>

\* init_game_db raised (no DATABASE_URL, or create_pool / execute failed):
\* on_ready ends there, the process runs on.
on_ready_raises ==
    /\ ready = "init_game_db"
    /\ \A o \in tasks : o.pc \in SuspensionPoints
    /\ ready' = "done"
    /\ UNCHANGED <<settings, suggestions, votes, tasks, lastCast, ops, views, modal, records>>

\* The process stops (at an await or between two committed storage calls)
\* and starts again: the handlers in flight, the view store and the open
\* form's callback are gone, the tables and the published records stay,
\* on_ready is to run.
Restart ==
    /\ ops < MaxOps
    /\ ops' = ops + 1
    /\ tasks' = {}
    /\ views' = {}
    /\ ready' = "init_game_db"
    /\ lastCast' = [p \in SuggestionIds \X Users |->
         IF \E t \in tasks : /\ t.kind = "vote"
                             /\ t.pc \in {"write", "write2"}
                             /\ p = <<t.sid, t.uid>>
         THEN NoCast ELSE lastCast[p]]
    /\ modal' = "none"
    /\ UNCHANGED <<settings, suggestions, votes, records>>

Next ==
    \/ \E g \in Guilds : setchannel(g)
    \/ \E g \in Guilds : setreviewerrole(g)
    \/ \E g \in Guilds : setblockedrole(g)
    \/ \E g \in Guilds : suggest(g)
    \/ \E g \in Guilds, s \in SuggestionIds : on_submit(g, s)
    \/ \E t \in tasks : SubmitSend(t)
    \/ \E t \in tasks : SubmitSave(t)
    \/ \E s \in SuggestionIds, u \in Users, g \in Guilds : handle_upvote(s, u, g)
    \/ \E s \in SuggestionIds, u \in Users, g \in Guilds : handle_downvote(s, u, g)
    \/ \E t \in tasks : VoteWrite(t)
    \/ \E t \in tasks : VoteWrite2(t)
    \/ \E t \in tasks : VoteAck(t)
    \/ \E t \in tasks : VoteEdit(t)
    \/ \E s \in SuggestionIds, g \in Guilds : approve(s, g)
    \/ \E s \in SuggestionIds, g \in Guilds : reject(s, g)
    \/ \E t \in tasks : DecideSet(t)
    \/ \E t \in tasks : DecideFetch(t)
    \/ \E t \in tasks : DecideEdit(t)
    \/ \E t \in tasks : Respond(t)
    \/ \E t \in tasks : PlatformFails(t)
    \/ on_ready
    \/ on_ready_raises
    \/ Restart

Spec == Init /\ [][Next]_vars

\* A step of handler t: its code up to the next await, or an await of it
\* coming back.
HandlerStep(t) ==
    \/ SubmitSend(t) \/ SubmitSave(t)
    \/ VoteWrite(t) \/ VoteWrite2(t) \/ VoteAck(t) \/ VoteEdit(t)
    \/ DecideSet(t) \/ DecideFetch(t) \/ DecideEdit(t)
    \/ Respond(t) \/ PlatformFails(t)

\* The event loop runs a handler up to its next await, every await comes
\* back (with a result or with an exception), and on_ready, dispatched when
\* the gateway reports READY, is resumed like any other handler.
LiveSpec ==
    /\ Spec
    /\ WF_vars(\E t \in tasks : HandlerStep(t))
    /\ WF_vars(on_ready \/ on_ready_raises)

\* ------------------------------------------------------------- properties

\* The rows of vs under the key (s, u), read without the accessors.
KeyRows(vs, s, u) ==
    {r \in vs : r \in {[suggestion_id |-> s, user_id |-> u, vote_type |-> v]
                          : v \in VoteTypes}}

\* The step taken is the one on which the vote call of t returns: the
\* toggle-off or the insert of VoteWrite, or the insert of VoteWrite2.
VoteReturns(t) ==
    /\ t.kind = "vote"
    /\ \/ t.pc = "write" /\ t.current_vote \notin (VoteTypes \ {t.type}) /\ VoteWrite(t)
       \/ t.pc = "write2" /\ VoteWrite2(t)

\* C1: once a suggestion's stored status is approved or rejected, no step
\* changes it: a row whose status is not pending keeps that status.
C1_TerminalStatusFinal ==
    [][\A r \in suggestions :
          r.status # "pending" =>
             \E r2 \in suggestions' :
                r2.suggestion_id = r.suggestion_id /\ r2.status = r.status]_vars

\* C2: a decide call that reaches its write on a suggestion whose status is
\* not pending fails with AlreadyDecided and leaves the suggestions table
\* (status, reason, anonymity flag of the first decision) as it was.
C2_SecondDecideRefused ==
    [][\A t \in tasks :
          (/\ t.kind = "decide" /\ t.pc = "set"
           /\ \E r \in suggestions :
                 r.suggestion_id = t.sid /\ r.status # "pending"
           /\ DecideSet(t))
          => /\ suggestions' = suggestions
             /\ \E t2 \in tasks' :
                   t2.kind = "decide" /\ t2.result = "AlreadyDecided"]_vars

\* C3: the votes table never holds two rows for one (suggestion, voter).
C3_OneVotePerVoter ==
    \A r1 \in votes, r2 \in votes :
       (r1.suggestion_id = r2.suggestion_id /\ r1.user_id = r2.user_id) => r1 = r2

\* C3 witness: a voter's second press (a switch) went through and the voter
\* has exactly one row.
C3_Witness ==
    \E t \in tasks :
       /\ t.kind = "vote" /\ t.pc = "ack" /\ t.result = "switched"
       /\ \E u \in Users : Cardinality(KeyRows(votes, t.sid, u)) = 1

\* C4: when a vote call on a pending suggestion returns, with C the voter's
\* row at the call: C = type gives "removed" and no row, C = the opposite
\* gives "switched" and a row of the requested type, no row gives "added"
\* and a row of the requested type; every other row is as it was at the call.
C4_DecisionTable ==
    [][\A t \in tasks :
          VoteReturns(t) =>
             LET C == VoteOf(t.votes_at_call, t.sid, t.uid)
                 res == IF C = t.type THEN "removed"
                        ELSE IF C = "none" THEN "added" ELSE "switched"
                 row == [suggestion_id |-> t.sid, user_id |-> t.uid,
                         vote_type |-> t.type]
             IN /\ \E t2 \in tasks' :
                      /\ t2.kind = "vote" /\ t2.pc = "ack"
                      /\ t2.sid = t.sid /\ t2.result = res
                /\ KeyRows(votes', t.sid, t.uid) = IF C = t.type THEN {} ELSE {row}
                /\ votes' \ KeyRows(votes', t.sid, t.uid)
                     = t.votes_at_call \ KeyRows(t.votes_at_call, t.sid, t.uid)]_vars

\* C4 witness: a switch has returned while another voter holds a row on the
\* same suggestion.
C4_Witness ==
    \E t \in tasks :
       /\ t.kind = "vote" /\ t.pc = "ack" /\ t.result = "switched"
       /\ Cardinality({r \in votes : r.suggestion_id = t.sid}) = 2

\* C5: a vote press from the suggestion's guild on a suggestion whose status
\* is not pending is answered VotingClosed, and neither that step nor the
\* reply that ends the call changes the votes table.
C5_VotingClosed ==
    [][/\ (ops' # ops /\ settings' = settings) =>
            \A r \in suggestions :
               r.status # "pending" =>
                  \A u \in Users, type \in VoteTypes :
                     VoteStart(r.suggestion_id, u, r.guild_id, type)
                     => /\ votes' = votes
                        /\ [kind |-> "vote", pc |-> "respond",
                            result |-> "VotingClosed"] \in tasks'
       /\ \A t \in tasks :
             (t.kind = "vote" /\ t.pc = "respond" /\ Respond(t)) => votes' = votes]_vars

\* C5 witness: a press on a decided suggestion that holds a vote row has been
\* answered VotingClosed.
C5_Witness ==
    /\ [kind |-> "vote", pc |-> "respond", result |-> "VotingClosed"] \in tasks
    /\ \E r \in suggestions :
          /\ r.status # "pending"
          /\ \E v \in votes : v.suggestion_id = r.suggestion_id

\* C6: for every suggestion identifier get_votes returns the number of its
\* upvote rows and the number of its downvote rows (0 and 0 without rows).
C6_TallyCountsRows ==
    \A s \in SuggestionIds :
       /\ get_votes(votes, s)["upvote"] =
             Cardinality({r \in votes : r.suggestion_id = s /\ r.vote_type = "upvote"})
       /\ get_votes(votes, s)["downvote"] =
             Cardinality({r \in votes : r.suggestion_id = s /\ r.vote_type = "downvote"})

\* C6 witness: one suggestion holds an upvote row and a downvote row, another
\* suggestion has a row in the store and no vote.
C6_Witness ==
    \E r1 \in suggestions, r2 \in suggestions :
       /\ \E v \in votes : v.suggestion_id = r1.suggestion_id /\ v.vote_type = "upvote"
       /\ \E v \in votes : v.suggestion_id = r1.suggestion_id /\ v.vote_type = "downvote"
       /\ \A v \in votes : v.suggestion_id # r2.suggestion_id

\* C7 as stated: when a voter's vote call returns and the voter's previous
\* call on that suggestion had the same direction, the voter has no row.
C7_TwiceGivesNoRow ==
    [][\A t \in tasks :
          (VoteReturns(t) /\ lastCast[<<t.sid, t.uid>>].type = t.type)
          => KeyRows(votes', t.sid, t.uid) = {}]_vars

\* C7 amended: the same, for a voter who did not hold a vote of that
\* direction before the first of the two calls.
C7_TwiceFromOtherGivesNoRow ==
    [][\A t \in tasks :
          (/\ VoteReturns(t)
           /\ lastCast[<<t.sid, t.uid>>].type = t.type
           /\ lastCast[<<t.sid, t.uid>>].before # t.type)
          => KeyRows(votes', t.sid, t.uid) = {}]_vars

\* C7 witness: two calls in a row with one direction have returned, the
\* second one removing the vote the first one set.
C7_Witness ==
    \E s \in SuggestionIds, u \in Users :
       /\ lastCast[<<s, u>>].twice
       /\ lastCast[<<s, u>>].before = lastCast[<<s, u>>].type
       /\ KeyRows(votes, s, u) = {}
       /\ \E t \in tasks : t.kind = "vote" /\ t.pc = "ack" /\ t.result = "removed"

\* C8: between a handler's reads and its writes no other handler runs: a
\* vote handler that has read finds the suggestion row and the votes table
\* as it read them (less its own removed row on a switch), a decide handler
\* finds the suggestion row as it read it, at most one handler is between
\* two awaits, and no add_vote has returned False.
C8_NoInterleavingInsideCall ==
    /\ Cardinality({t \in tasks : t.pc \in {"write", "write2", "set"}}) <= 1
    /\ \A t \in tasks :
          /\ t.pc \in {"write", "write2", "set"}
                => t.suggestion = {r \in suggestions : r.suggestion_id = t.sid}
          /\ t.pc = "write"
                => votes = t.votes_at_call
                   /\ t.current_vote = VoteOf(votes, t.sid, t.uid)
          /\ t.pc = "write2"
                => votes = t.votes_at_call \ KeyRows(t.votes_at_call, t.sid, t.uid)
          /\ (t.kind = "vote" /\ t.pc \in {"ack", "edit"}) => t.add_ok

\* C8 witness: a vote handler is between its remove_vote and its add_vote
\* while another handler on the same suggestion is suspended in an await.
C8_Witness ==
    \E t \in tasks, o \in tasks :
       /\ t.kind = "vote" /\ t.pc = "write2"
       /\ o.pc \in {"ack", "edit", "fetch"} /\ o.sid = t.sid

\* C9: when the process stops while a vote switch is under way, the voter's
\* row is the one held before the switch began.
C9_SwitchIsAtomic ==
    [][Restart =>
          \A t \in tasks :
             (t.kind = "vote" /\ t.pc = "write2")
             => KeyRows(votes', t.sid, t.uid)
                  = KeyRows(t.votes_at_call, t.sid, t.uid)]_vars

\* The step is a decision write of handler t on row r giving row r2.
DecisionWrite(t, r, r2) ==
    /\ t.kind = "decide" /\ t.pc = "set" /\ DecideSet(t)
    /\ t.sid = r.suggestion_id
    /\ r2.status = t.verdict
    /\ r2.decision_reason = t.reason
    /\ r2.decided_anonymously = t.anonymous

\* C10: a pending suggestion has no decision reason and a false anonymity
\* flag, and every step that changes a suggestion row is one decision write
\* that sets status, reason and flag together to the values of that decision.
C10_DecisionFieldsAtomic ==
    /\ [](\A r \in suggestions :
            r.status = "pending" =>
               r.decision_reason = "NULL" /\ r.decided_anonymously = FALSE)
    /\ [][\A r \in suggestions, r2 \in suggestions' :
             (r2.suggestion_id = r.suggestion_id /\ r2 # r)
             => \E t \in tasks : DecisionWrite(t, r, r2)]_vars

\* C10 witness: one suggestion is decided with a reason and the anonymity
\* flag while another one is pending.
C10_Witness ==
    \E r \in suggestions, p \in suggestions :
       /\ r.status # "pending" /\ r.decision_reason = "r1" /\ r.decided_anonymously
       /\ p.status = "pending"

\* C11: the stored status is always one of pending, approved, rejected; a
\* row that appears in the table appears with status pending; and no step
\* gives status pending to a row whose status was approved or rejected.
C11_StatusLifecycle ==
    /\ [](\A r \in suggestions : r.status \in {"pending", "approved", "rejected"})
    /\ [][/\ \A r2 \in suggestions' :
                (\A r \in suggestions : r.suggestion_id # r2.suggestion_id)
                => r2.status = "pending"
          /\ \A r \in suggestions, r2 \in suggestions' :
                (r2.suggestion_id = r.suggestion_id /\ r.status # "pending")
                => r2.status # "pending"]_vars

\* C11 witness: a suggestion approved by one handler (still waiting for the
\* record) has been decided again by another and is rejected, not pending.
C11_Witness ==
    \E r \in suggestions, t \in tasks :
       /\ r.status = "rejected"
       /\ t.kind = "decide" /\ t.pc = "fetch"
       /\ t.sid = r.suggestion_id /\ t.result = "approved"

\* C12: once the process has restarted (on_ready is to run), a state follows
\* in which every suggestion whose stored status is pending has a
\* SuggestionView in the view store.
C12_PendingReattached ==
    (ready = "init_game_db")
       ~> (\A r \in suggestions : r.status = "pending" => r.suggestion_id \in views)

\* C13: the views on_ready adds are those of exactly the suggestions whose
\* stored status is pending at that time: after it every pending suggestion
\* has a view, and no view is added for an approved or rejected suggestion
\* or for an id without a row.
C13_ReattachedExactlyPending ==
    [][on_ready =>
          /\ \A r \in suggestions :
                r.status = "pending" => r.suggestion_id \in views'
          /\ \A s \in views' \ views :
                \E r \in suggestions : r.suggestion_id = s /\ r.status = "pending"]_vars

\* C13 witness: after a restart on_ready is over, a pending suggestion has
\* its view again and a decided one has none.
C13_Witness ==
    /\ ready = "done"
    /\ \E p \in suggestions, d \in suggestions :
          /\ p.status = "pending" /\ p.suggestion_id \in views
          /\ d.status # "pending" /\ d.suggestion_id \notin views

\* C14: when save_suggestion is reached with an identifier that has a row,
\* the submission still ends with a new pending record of its guild under
\* another identifier, and the rows that existed are unchanged.
C14_CollisionRetried ==
    [][\A t \in tasks :
          (/\ t.kind = "submit" /\ t.pc = "thread"
           /\ \E r \in suggestions : r.suggestion_id = t.sid
           /\ SubmitSave(t))
          => /\ suggestions \subseteq suggestions'
             /\ \E r2 \in suggestions' \ suggestions :
                   /\ r2.status = "pending" /\ r2.guild_id = t.guild
                   /\ r2.suggestion_id # t.sid]_vars

\* C15: a submission in a guild without a settings row, or with the channel
\* unset, is answered NotConfigured: the step starts no handler that goes on
\* to publish, and neither it nor the reply that ends the call adds a
\* suggestion row or a published record (a stored view).
C15_NotConfigured ==
    [][/\ (ops' # ops /\ settings' = settings) =>
            \A g \in Guilds, s \in SuggestionIds :
               (/\ ~\E r \in settings :
                       r.guild_id = g /\ r.suggestion_channel_id # "NULL"
                /\ on_submit(g, s))
               => /\ [kind |-> "submit", pc |-> "respond",
                       result |-> "NotConfigured"] \in tasks'
                  /\ tasks' \ tasks \subseteq
                       {[kind |-> "submit", pc |-> "respond",
                         result |-> "NotConfigured"]}
                  /\ suggestions' = suggestions
                  /\ views' = views
       /\ \A t \in tasks :
             (t.kind = "submit" /\ t.pc = "respond" /\ Respond(t))
             => suggestions' = suggestions /\ views' = views]_vars

\* C15 witness: a guild has a settings row with the channel unset, a
\* submission has been answered NotConfigured, and no suggestion is stored
\* or published.
C15_Witness ==
    /\ [kind |-> "submit", pc |-> "respond", result |-> "NotConfigured"] \in tasks
    /\ \E r \in settings : r.suggestion_channel_id = "NULL"
    /\ suggestions = {} /\ views = {}

\* C16: a vote press and a decide command of an authorised actor that name
\* an identifier without a row are answered NotFound; the step starts no
\* handler that goes on to write, and neither it (whoever the actor is) nor
\* the reply that ends the call changes the suggestions or the votes table.
C16_UnknownIdNotFound ==
    [][/\ (ops' # ops /\ settings' = settings) =>
            \A s \in SuggestionIds :
               (\A r \in suggestions : r.suggestion_id # s) =>
                  /\ \A u \in Users, g \in Guilds, type \in VoteTypes :
                        VoteStart(s, u, g, type)
                        => /\ tasks' \ tasks \subseteq
                                {[kind |-> "vote", pc |-> "respond",
                                  result |-> "NotFound"]}
                           /\ [kind |-> "vote", pc |-> "respond",
                               result |-> "NotFound"] \in tasks'
                           /\ suggestions' = suggestions /\ votes' = votes
                  /\ \A g \in Guilds, verdict \in {"approved", "rejected"},
                        role \in RoleStates, admin \in BOOLEAN :
                        DecideChecked(s, g, verdict, role, admin)
                        => /\ suggestions' = suggestions /\ votes' = votes
                           /\ \A t2 \in tasks' \ tasks : t2.pc = "respond"
                           /\ (/\ \E r \in settings :
                                     r.guild_id = g /\ r.reviewer_role_id # "NULL"
                               /\ (role = "held" \/ admin))
                              => [kind |-> "decide", pc |-> "respond",
                                  result |-> "NotFound", rendered |-> FALSE] \in tasks'
       /\ \A t \in tasks :
             (t.pc = "respond" /\ t.result = "NotFound" /\ Respond(t))
             => suggestions' = suggestions /\ votes' = votes]_vars

\* C16 witness: a record is published whose identifier has no row (its
\* thread could not be created); a press on it and a decide command naming
\* it have both been answered NotFound.
C16_Witness ==
    /\ [kind |-> "vote", pc |-> "respond", result |-> "NotFound"] \in tasks
    /\ [kind |-> "decide", pc |-> "respond", result |-> "NotFound",
         rendered |-> FALSE] \in tasks
    /\ suggestions = {} /\ votes = {} /\ views # {}

\* C17: once a handler has committed its write (a vote handler waiting for
\* its acknowledgment or its record edit, a decide handler waiting for the
\* record fetch, the record edit and thread lock, or its reply), no step of
\* it changes the suggestions or the votes table, whether the await it
\* waits in raises or returns, early or late.
C17_NoRollback ==
    [][\A t \in tasks :
          (/\ \/ t.kind = "vote" /\ t.pc \in {"ack", "edit"}
              \/ t.kind = "decide" /\ t.pc \in {"fetch", "edit", "respond"}
           /\ HandlerStep(t))
          => suggestions' = suggestions /\ votes' = votes]_vars

\* C17 witness: the record of an approved suggestion could not be fetched
\* or edited; the handler is at its reply and the row holds the decision
\* with its reason and flag, the vote row cast before is in place.
C17_Witness ==
    \E t \in tasks, r \in suggestions :
       /\ t.kind = "decide" /\ t.pc = "respond"
       /\ t.result = "approved" /\ ~t.rendered
       /\ r.status = "approved" /\ r.decision_reason = "r1" /\ r.decided_anonymously
       /\ \E v \in votes : v.suggestion_id = r.suggestion_id

\* C18: when a decide handler whose anonymous option is true renders its
\* decision field, the field shows "Anonymous Reviewer", and the step is the
\* same whichever member ran the command: the rendering of member m1 is the
\* rendering of every other member m2.
C18_AnonymousRedacted ==
    [][\A t \in tasks :
          (t.kind = "decide" /\ t.pc = "fetch" /\ t.anonymous) =>
             \A m1 \in Mentions :
                DecideRender(t, m1) =>
                   /\ \E t2 \in tasks' :
                         /\ t2.kind = "decide" /\ t2.pc = "edit" /\ t2.sid = t.sid
                         /\ t2.field.by = "Anonymous Reviewer"
                         /\ t2.field.by \notin Mentions
                   /\ \A m2 \in Mentions : DecideRender(t, m2)]_vars

\* C18 witness: an anonymous decision with a reason is rendered, the field
\* waiting for message.edit shows the redacted identity and the reason.
C18_Witness ==
    \E t \in tasks, r \in suggestions :
       /\ t.kind = "decide" /\ t.pc = "edit"
       /\ t.field.by = "Anonymous Reviewer" /\ t.field.reason = "r1"
       /\ r.suggestion_id = t.sid /\ r.decided_anonymously

\* C19: no step changes a vote row of a suggestion whose status is approved
\* or rejected, and the decision write changes no vote row; so for a decide
\* handler past its write the suggestion's vote rows are those of the write,
\* and the tally it has read for the record counts exactly them.
C19_FinalTally ==
    /\ [][\A r \in suggestions :
             r.status # "pending" =>
                {v \in votes' : v.suggestion_id = r.suggestion_id}
                  = {v \in votes : v.suggestion_id = r.suggestion_id}]_vars
    /\ [][\A t \in tasks :
             (t.kind = "decide" /\ t.pc = "set" /\ DecideSet(t)) => votes' = votes]_vars
    /\ [](\A t \in tasks :
            (t.kind = "decide" /\ t.pc \in {"fetch", "edit"}) =>
               /\ {v \in votes : v.suggestion_id = t.sid} = t.votes_at_set
               /\ t.pc = "edit" =>
                     \A type \in VoteTypes :
                        t.tally[type] =
                          Cardinality({v \in t.votes_at_set : v.vote_type = type}))

\* C19 witness: a decide handler has read a tally with an upvote and a
\* downvote while a vote handler on the same suggestion is still waiting
\* for its acknowledgment or its record edit.
C19_Witness ==
    \E t \in tasks, o \in tasks :
       /\ t.kind = "decide" /\ t.pc = "edit"
       /\ t.tally["upvote"] = 1 /\ t.tally["downvote"] = 1
       /\ o.kind = "vote" /\ o.pc \in {"ack", "edit"} /\ o.sid = t.sid

\* The guild g has a reviewer role configured and the actor holds it or is
\* an administrator, read from the settings table and the inputs.
Authorised(g, role, admin) ==
    /\ \E r \in settings : r.guild_id = g /\ r.reviewer_role_id # "NULL"
    /\ (role = "held" \/ admin)

\* C20: a decide command of an actor who is not authorised is refused
\* without a write and starts no handler that goes on to write; every
\* handler that goes on to the status write was started by an authorised
\* actor; and a status changes only in the status write of such a handler.
C20_OnlyReviewersDecide ==
    /\ [][(ops' # ops /\ settings' = settings) =>
             \A s \in SuggestionIds, g \in Guilds, verdict \in {"approved", "rejected"},
                role \in RoleStates, admin \in BOOLEAN :
                (~Authorised(g, role, admin) /\ DecideChecked(s, g, verdict, role, admin))
                => /\ suggestions' = suggestions /\ votes' = votes
                   /\ \A t2 \in tasks' \ tasks :
                         /\ t2.kind = "decide" /\ t2.pc = "respond"
                         /\ t2.result \in {"NoReviewerRole", "NotReviewer"}]_vars
    /\ [][\A t2 \in tasks' \ tasks :
             (t2.kind = "decide" /\ t2.pc = "set") =>
                \E g \in Guilds, role \in RoleStates, admin \in BOOLEAN :
                   /\ Authorised(g, role, admin)
                   /\ DecideChecked(t2.sid, g, t2.verdict, role, admin)]_vars
    /\ [][\A r \in suggestions, r2 \in suggestions' :
             (r2.suggestion_id = r.suggestion_id /\ r2.status # r.status) =>
                \E t \in tasks :
                   /\ t.kind = "decide" /\ t.pc = "set" /\ t.sid = r.suggestion_id
                   /\ DecideSet(t)]_vars

\* C20 witness: with a pending suggestion stored, a member without the
\* reviewer role and a member of a guild without a reviewer role have both
\* been refused.
C20_Witness ==
    /\ [kind |-> "decide", pc |-> "respond", result |-> "NotReviewer",
         rendered |-> FALSE] \in tasks
    /\ [kind |-> "decide", pc |-> "respond", result |-> "NoReviewerRole",
         rendered |-> FALSE] \in tasks
    /\ \E r \in suggestions : r.status = "pending"

\* C21: no suggestion record is created for an author who holds the guild's
\* blocked role at the moment the record is created, also when the author
\* got the role, or the role was configured, after the form was opened.
C21_BlockedAuthorNoRecord ==
    [][\A t \in tasks, role \in RoleStates :
         (SubmitSaveAs(t, role) /\ suggestions' # suggestions)
            => ~Blocked(t.guild, role)]_vars

\* C22: once a decide handler has completed its rendering update, the public
\* record shows the decision field in every later state; no vote handler
\* that was in flight at the decision replaces it by a rendering without it.
C22_DecisionFieldKept ==
    [][\A s \in SuggestionIds :
         records[s] = "decided" => records'[s] = "decided"]_vars

\* C23: whenever a public record with voting controls is visible, the
\* suggestion row it is tagged with exists in the store (so a press on a
\* published record is never answered NotFound, and a submission that ends
\* in a reported error leaves no published record behind).
C23_PublishedHasRow ==
    \A s \in SuggestionIds : records[s] # "none" => get_suggestion(s) # {}

\* C24: every vote row refers to a suggestion row that exists in the store,
\* and a vote row is written only while that suggestion's status is pending:
\* no step leaves a vote row for an identifier without a suggestion record.
C24_VoteRowsHaveSuggestion ==
    [][/\ \A v \in votes' :
            \E r \in suggestions' : r.suggestion_id = v.suggestion_id
       /\ \A v \in votes' \ votes :
            \E r \in suggestions : /\ r.suggestion_id = v.suggestion_id
                                   /\ r.status = "pending"]_vars

\* C24 witness: a vote row written while its suggestion was pending, the
\* handler that wrote it still waiting for its acknowledgment, and the
\* suggestion decided since.
C24_Witness ==
    \E v \in votes, r \in suggestions, t \in tasks :
        /\ r.suggestion_id = v.suggestion_id /\ r.status # "pending"
        /\ t.kind = "vote" /\ t.pc = "ack" /\ t.result = "added"
        /\ t.sid = v.suggestion_id

\* C25: a vote press, and a decide command of an authorised actor, issued
\* from a guild other than the one the suggestion belongs to is answered
\* NotFound; the step starts no handler that goes on to write, and neither
\* it (whoever the actor is) nor the reply that ends the call changes the
\* suggestion's status and decision fields or any vote row.
C25_OtherGuildNotFound ==
    [][/\ \A s \in SuggestionIds, g \in Guilds :
            (\E r \in suggestions : r.suggestion_id = s /\ r.guild_id # g) =>
               /\ \A u \in Users, type \in VoteTypes :
                     VoteStart(s, u, g, type)
                     => /\ tasks' \ tasks \subseteq
                             {[kind |-> "vote", pc |-> "respond",
                               result |-> "NotFound"]}
                        /\ [kind |-> "vote", pc |-> "respond",
                            result |-> "NotFound"] \in tasks'
                        /\ suggestions' = suggestions /\ votes' = votes
               /\ \A verdict \in {"approved", "rejected"},
                     role \in RoleStates, admin \in BOOLEAN :
                     DecideChecked(s, g, verdict, role, admin)
                     => /\ suggestions' = suggestions /\ votes' = votes
                        /\ \A t2 \in tasks' \ tasks : t2.pc = "respond"
                        /\ (ReviewerRoleSet(g) /\ IsReviewer(role, admin))
                           => [kind |-> "decide", pc |-> "respond",
                               result |-> "NotFound", rendered |-> FALSE] \in tasks'
       /\ \A t \in tasks :
            (t.pc = "respond" /\ t.result = "NotFound" /\ Respond(t))
               => suggestions' = suggestions /\ votes' = votes]_vars

\* C25 witness: every published identifier has its row, in one guild, still
\* pending and without votes; a press from the other guild has been
\* answered NotFound, and so has a decide command from the other guild,
\* where a reviewer role is configured.
C25_Witness ==
    /\ [kind |-> "vote", pc |-> "respond", result |-> "NotFound"] \in tasks
    /\ [kind |-> "decide", pc |-> "respond", result |-> "NotFound",
         rendered |-> FALSE] \in tasks
    /\ suggestions # {} /\ votes = {}
    /\ \A s \in SuggestionIds : records[s] # "none" => get_suggestion(s) # {}
    /\ \A r \in suggestions : r.status = "pending" /\ r.guild_id = "g1"
    /\ ReviewerRoleSet("g2")

====
